---- MODULE Spec2Model ----
(***************************************************************************)
(* Mist user backend: password hashing, JWT issuance / verification        *)
(* (app/core/security.py), the user service (app/services/user.py) and the *)
(* users table (app/models/user.py).                                       *)
(*                                                                         *)
(* Python values are modelled as records so that Python's None can be      *)
(* compared with any of them.  Cryptographic primitives (HMAC, bcrypt) are *)
(* modelled symbolically: a MAC / digest is the record of its inputs, so   *)
(* two of them are equal exactly when their inputs are equal.              *)
(***************************************************************************)
EXTENDS Integers, FiniteSets, Sequences, TLC

VARIABLES
    now,      \* wall clock, in ticks (TicksPerSec ticks per second)
    tokIn,    \* the token string a caller currently holds
    call,     \* arguments and result of the last create_access_token call
    out,      \* function, argument, time and outcome of the last verification call
    users,    \* rows of the users table (committed)
    pc,       \* per request worker: position inside the running service call
    req,      \* per request worker: arguments of the running / last service call
    loc,      \* per request worker: the ORM object the call loaded (or None)
    res,      \* per request worker: outcome of the last finished service call
    bcrypt_version,  \* the bcrypt release installed (the dependency is not pinned)
    hashIn,   \* the stored hash string a caller currently holds
    hcall,    \* arguments and outcome of the last hash_password call
    hout      \* arguments and outcome of the last verify_password call

tokVars == <<tokIn, call, out>>
svcVars == <<users, pc, req, loc, res>>
hashVars == <<bcrypt_version, hashIn, hcall, hout>>
vars == <<now, tokIn, call, out, users, pc, req, loc, res,
          bcrypt_version, hashIn, hcall, hout>>

-----------------------------------------------------------------------------
(* Bounds of the model *)

TicksPerSec == 2          \* clock resolution: sub-second time exists
StartTime == 4            \* clock value at process start, in ticks
MaxTime == 10             \* last clock value explored, in ticks
ExpireSeconds == 2        \* jwt_access_token_expire_min, scaled to model seconds

(* Python's None *)
None == [none |-> TRUE]

(* Outcome of a Python call: a returned value or a propagating exception *)
Ret(v) == [raised |-> "", ret |-> v]
Raise(e) == [raised |-> e, ret |-> None]

-----------------------------------------------------------------------------
(* Configuration (app/config.py), constant for the process lifetime *)

jwt_secret_key == "k_server"
jwt_algorithm == "HS256"
OtherKeys == {"k_other"}
Keys == {jwt_secret_key} \cup OtherKeys

(* HMAC algorithms the JOSE library implements; "none" is not one of them *)
SupportedAlgs == {"HS256", "HS384"}
HeaderAlgs == SupportedAlgs \cup {"none"}

ULID(n) == [ulid |-> n]
UserIds == {ULID(1), ULID(2)}

(* timedelta arguments of create_access_token, in seconds; None = not given *)
Delta(s) == [seconds |-> s]
Deltas == {None} \cup {Delta(s) : s \in -1 .. 2}

Seconds(t) == t \div TicksPerSec

-----------------------------------------------------------------------------
(* JOSE compact tokens: header.payload.signature *)

Hmac(key, alg, header, payload) ==
    [key |-> key, alg |-> alg, header |-> header, payload |-> payload,
     flipped |-> FALSE]

FlipByte(sig) == [sig EXCEPT !.flipped = ~@]

(* jwt.encode(claims, key, algorithm) *)
jwt_encode(claims, key, algorithm) ==
    LET header == [alg |-> algorithm, typ |-> "JWT"]
    IN  [fmt |-> "jws", header |-> header, payload |-> claims,
         signature |-> Hmac(key, algorithm, header, claims)]

(* strings that are not three well-formed base64url segments *)
MalformedTokens == {[fmt |-> "no_segments"], [fmt |-> "bad_header"],
                    [fmt |-> "bad_payload"]}

JWTErrors == {"JWTError", "ExpiredSignatureError", "JWTClaimsError"}

(* jwt.decode's options; both default to True *)
DefaultOptions == [verify_signature |-> TRUE, verify_exp |-> TRUE]

(* jwt.decode(token, key, algorithms=[...], options) at clock value t:     *)
(* load the three segments, check the header's alg against the allowed     *)
(* ones and the signature against the key, then validate exp, which fails  *)
(* when exp < now, both in whole seconds                                   *)
jwt_decode(token, key, algorithms, options, t) ==
    IF token.fmt # "jws" THEN Raise("JWTError")
    ELSE IF options.verify_signature
            /\ token.header.alg \notin algorithms
         THEN Raise("JWTError")
    ELSE IF options.verify_signature
            /\ token.header.alg \notin SupportedAlgs
         THEN Raise("JWTError")
    ELSE IF options.verify_signature
            /\ token.signature #
                  Hmac(key, token.header.alg, token.header, token.payload)
         THEN Raise("JWTError")
    ELSE IF options.verify_exp
            /\ "exp" \in DOMAIN token.payload
            /\ token.payload.exp < Seconds(t)
         THEN Raise("ExpiredSignatureError")
    ELSE Ret(token.payload)

(* create_access_token that takes the ttl itself for the expiry instant *)
TokenManager_create_access_token_NoNow(data, expires_delta, t) ==
    LET truthy == expires_delta # None /\ expires_delta # Delta(0)
        expire == IF truthy
                  THEN expires_delta.seconds * TicksPerSec
                  ELSE ExpireSeconds * TicksPerSec
        to_encode == [k \in DOMAIN data \cup {"exp"} |->
                         IF k = "exp" THEN Seconds(expire) ELSE data[k]]
    IN  jwt_encode(to_encode, jwt_secret_key, jwt_algorithm)

(* TokenManager.create_access_token(data, expires_delta) at clock value t; *)
(* a timedelta is falsy when it is zero                                    *)
TokenManager_create_access_token(data, expires_delta, t) ==
    LET truthy == expires_delta # None /\ expires_delta # Delta(0)
        expire == IF truthy
                  THEN t + expires_delta.seconds * TicksPerSec
                  ELSE t + ExpireSeconds * TicksPerSec
        to_encode == [k \in DOMAIN data \cup {"exp"} |->
                         IF k = "exp" THEN Seconds(expire) ELSE data[k]]
    IN  jwt_encode(to_encode, jwt_secret_key, jwt_algorithm)

(* verify_token with the signature check switched off *)
verify_token_Unverified(token, t) ==
    LET r == jwt_decode(token, jwt_secret_key, {jwt_algorithm},
                        [DefaultOptions EXCEPT !.verify_signature = FALSE], t)
    IN  IF r.raised \in JWTErrors THEN Ret(None) ELSE r

(* verify_token without the algorithms argument: any implemented one passes *)
verify_token_AnyAlg(token, t) ==
    LET r == jwt_decode(token, jwt_secret_key, SupportedAlgs,
                        DefaultOptions, t)
    IN  IF r.raised \in JWTErrors THEN Ret(None) ELSE r

(* verify_token whose except clause catches the expiry error only *)
verify_token_NarrowExcept(token, t) ==
    LET r == jwt_decode(token, jwt_secret_key, {jwt_algorithm},
                        DefaultOptions, t)
    IN  IF r.raised = "ExpiredSignatureError" THEN Ret(None) ELSE r

(* TokenManager.verify_token(token) at clock value t *)
verify_token(token, t) ==
    LET r == jwt_decode(token, jwt_secret_key, {jwt_algorithm},
                        DefaultOptions, t)
    IN  IF r.raised \in JWTErrors THEN Ret(None) ELSE r

(* TokenManager.get_user_id_from_token(token) at clock value t *)
get_user_id_from_token(token, t) ==
    LET r == verify_token(token, t)
    IN  IF r.raised # "" THEN r
        ELSE IF r.ret = None THEN Ret(None)
        ELSE IF "sub" \in DOMAIN r.ret THEN Ret(r.ret.sub) ELSE Ret(None)

(* create_access_token that files the user id under a claim of its own *)
create_access_token_WrongClaim(user_id, expires_delta, t) ==
    TokenManager_create_access_token([user_id |-> user_id], expires_delta, t)

(* create_access_token(user_id, expires_delta) at clock value t *)
create_access_token(user_id, expires_delta, t) ==
    TokenManager_create_access_token([sub |-> user_id], expires_delta, t)

(* verify_access_token(token) at clock value t *)
verify_access_token(token, t) == get_user_id_from_token(token, t)

-----------------------------------------------------------------------------
(* Token issuer / verifier exercised on its own: a caller obtains a token  *)
(* string (issued here, issued elsewhere, tampered with, or garbage) and   *)
(* hands it to the verifier at some later clock value.                     *)

EmptyDict == [k \in {} |-> None]
TokenData == {[sub |-> u] : u \in UserIds} \cup {EmptyDict}

NoCall == [made |-> FALSE]
NoOut == [fn |-> "", result |-> Ret(None)]

(* claim sets of tokens minted outside this process *)
ForeignClaims == {[sub |-> u, exp |-> e] :
                     u \in UserIds, e \in {Seconds(StartTime), Seconds(MaxTime)}}

TokInit ==
    /\ tokIn = [fmt |-> "no_segments"]
    /\ call = NoCall
    /\ out = NoOut

(* TokenManager.create_access_token(data, expires_delta); the convenience   *)
(* create_access_token(user_id, expires_delta) is the case data = {sub}.    *)
TCreate(data, d) ==
    /\ tokIn' = TokenManager_create_access_token(data, d, now)
    /\ call' = [made |-> TRUE, data |-> data, delta |-> d, at |-> now]
    /\ out' = NoOut
    /\ UNCHANGED <<now, svcVars, hashVars>>

(* a token minted with another key or another algorithm *)
TForeign(key, alg, claims) ==
    /\ <<key, alg>> # <<jwt_secret_key, jwt_algorithm>>
    /\ tokIn' = jwt_encode(claims, key, alg)
    /\ call' = NoCall
    /\ out' = NoOut
    /\ UNCHANGED <<now, svcVars, hashVars>>

(* one byte of the signature segment is flipped *)
TFlip ==
    /\ tokIn.fmt = "jws"
    /\ tokIn' = [tokIn EXCEPT !.signature = FlipByte(@)]
    /\ call' = NoCall
    /\ out' = NoOut
    /\ UNCHANGED <<now, svcVars, hashVars>>

(* the payload segment is replaced, the signature kept *)
TAlterSub(u) ==
    /\ tokIn.fmt = "jws"
    /\ "sub" \in DOMAIN tokIn.payload
    /\ tokIn.payload.sub # u
    /\ tokIn' = [tokIn EXCEPT !.payload.sub = u]
    /\ call' = NoCall
    /\ out' = NoOut
    /\ UNCHANGED <<now, svcVars, hashVars>>

(* the header segment is replaced by one naming another algorithm *)
TAlterAlg(alg) ==
    /\ tokIn.fmt = "jws"
    /\ tokIn.header.alg # alg
    /\ tokIn' = [tokIn EXCEPT !.header.alg = alg]
    /\ call' = NoCall
    /\ out' = NoOut
    /\ UNCHANGED <<now, svcVars, hashVars>>

(* the caller presents a string that is no compact token at all *)
TMalformed(m) ==
    /\ tokIn # m
    /\ tokIn' = m
    /\ call' = NoCall
    /\ out' = NoOut
    /\ UNCHANGED <<now, svcVars, hashVars>>

(* TokenManager.verify_token(tokIn) *)
TVerify ==
    /\ out' = [fn |-> "verify_token", result |-> verify_token(tokIn, now)]
    /\ UNCHANGED <<now, tokIn, call, svcVars, hashVars>>

(* verify_access_token(tokIn) *)
TSubject ==
    /\ out' = [fn |-> "verify_access_token",
               result |-> verify_access_token(tokIn, now)]
    /\ UNCHANGED <<now, tokIn, call, svcVars, hashVars>>

(* time passes; the outcome of an earlier verification is forgotten *)
TTick ==
    /\ now < MaxTime
    /\ now' = now + 1
    /\ out' = NoOut
    /\ UNCHANGED <<tokIn, call, svcVars, hashVars>>

TokNext ==
    \/ \E data \in TokenData, d \in Deltas : TCreate(data, d)
    \/ \E key \in Keys, alg \in SupportedAlgs, c \in ForeignClaims :
          TForeign(key, alg, c)
    \/ TFlip
    \/ \E u \in UserIds : TAlterSub(u)
    \/ \E alg \in HeaderAlgs : TAlterAlg(alg)
    \/ \E m \in MalformedTokens : TMalformed(m)
    \/ TVerify
    \/ TSubject
    \/ TTick


-----------------------------------------------------------------------------
(* Password hasher (bcrypt) *)

Salts == {"saltA", "saltB"}

(* releases of the bcrypt package: up to 4.x hashpw silently uses the first *)
(* 72 bytes of the password, from 5.0 on it raises ValueError for more     *)
BcryptVersions == {"4.x", "5.x"}
BcryptMaxBytes == 72

(* one lone surrogate code point, written as its escape *)
LoneSurrogate == "\\udc80"

HasSurrogate(s) ==
    \E i \in 1 .. (Len(s) - Len(LoneSurrogate) + 1) :
        SubSeq(s, i, i + Len(LoneSurrogate) - 1) = LoneSurrogate

(* str.encode('utf-8'): the bytes (one per character for the ASCII text    *)
(* used here), or UnicodeEncodeError on a surrogate                        *)
str_encode(s) ==
    IF HasSurrogate(s) THEN Raise("UnicodeEncodeError") ELSE Ret(s)

(* bcrypt's digest of a key under a salt, one-way: the record of its       *)
(* inputs, compared only as a whole                                        *)
Bcrypt(password, salt) == [pw |-> password, salt |-> salt]

(* bcrypt.hashpw(password, salt): salt is a gensalt() output or a stored   *)
(* hash, whose leading part is the salt                                    *)
bcrypt_hashpw(password, salt) ==
    IF bcrypt_version = "5.x" /\ Len(password) > BcryptMaxBytes
    THEN Raise("ValueError")
    ELSE IF salt.scheme # "2b" \/ salt.salt \notin Salts
    THEN Raise("ValueError")
    ELSE LET key == IF Len(password) > BcryptMaxBytes
                    THEN SubSeq(password, 1, BcryptMaxBytes)
                    ELSE password
         IN  Ret([scheme |-> "2b", salt |-> salt.salt,
                  digest |-> Bcrypt(key, salt.salt)])

(* bcrypt.checkpw(password, hashed_password) *)
bcrypt_checkpw(password, hashed_password) ==
    LET r == bcrypt_hashpw(password, hashed_password)
    IN  IF r.raised # "" THEN r ELSE Ret(r.ret = hashed_password)

(* bcrypt.gensalt() having drawn salt *)
bcrypt_gensalt(salt) == [scheme |-> "2b", salt |-> salt, digest |-> None]

(* PasswordManager.hash_password(password), with the salt gensalt() drew:  *)
(* the stored string, or the exception that propagates                     *)
PasswordManager_hash_password(password, salt) ==
    LET b == str_encode(password)
    IN  IF b.raised # "" THEN b
        ELSE bcrypt_hashpw(b.ret, bcrypt_gensalt(salt))

(* the body of verify_password's try block *)
verify_password_try(plain_password, hashed_password) ==
    LET b == str_encode(plain_password)
    IN  IF b.raised # "" THEN b
        ELSE IF hashed_password = None THEN Raise("AttributeError")
        ELSE bcrypt_checkpw(b.ret, hashed_password)

(* verify_password without its except clause *)
PasswordManager_verify_password_NoExcept(plain_password, hashed_password) ==
    verify_password_try(plain_password, hashed_password)

(* PasswordManager.verify_password(plain_password, hashed_password) *)
PasswordManager_verify_password(plain_password, hashed_password) ==
    LET r == verify_password_try(plain_password, hashed_password)
    IN  IF r.raised # "" THEN Ret(FALSE) ELSE r

(* hash_password that hands the password back unhashed *)
hash_password_Plain(password, salt) ==
    [scheme |-> "plain", salt |-> "", digest |-> password]

(* hash_password(password): the convenience function, as create_user uses  *)
(* it on a password UserCreate admitted                                    *)
hash_password(password, salt) ==
    PasswordManager_hash_password(password, salt).ret

(* verify_password(plain_password, hashed_password): the convenience       *)
(* function                                                                *)
verify_password(plain_password, hashed_password) ==
    PasswordManager_verify_password(plain_password, hashed_password).ret

-----------------------------------------------------------------------------
(* The password hasher exercised on its own: a caller hashes a plaintext   *)
(* or picks up some other stored string, then verifies a plaintext against *)
(* it.                                                                     *)

Prefix72 ==
    "aaaaaaaaaaaaaaaaaaaaaaaaaaaaaaaaaaaaaaaaaaaaaaaaaaaaaaaaaaaaaaaaaaaaaaaa"

Plaintexts == {"", "Abc123!@#", "Xyz789$%^", Prefix72, Prefix72 \o "X",
               Prefix72 \o "Y", LoneSurrogate}

(* stored strings that no hash_password call produced *)
MalformedHashes ==
    {None,
     [scheme |-> "", salt |-> "", digest |-> None],
     [scheme |-> "md5", salt |-> "saltA", digest |-> Bcrypt("Abc123!@#", "saltA")],
     [scheme |-> "2b", salt |-> "salt", digest |-> None],
     [scheme |-> "2b", salt |-> "saltA", digest |-> None]}

NoHCall == [made |-> FALSE]
NoHOut == [fn |-> "", result |-> Ret(None)]

HashInit ==
    /\ bcrypt_version \in BcryptVersions
    /\ hashIn = None
    /\ hcall = NoHCall
    /\ hout = NoHOut

(* PasswordManager.hash_password(password); the caller keeps the result *)
HHash(password, salt) ==
    LET r == PasswordManager_hash_password(password, salt)
    IN  /\ hcall' = [made |-> TRUE, password |-> password, salt |-> salt,
                     result |-> r]
        /\ hashIn' = IF r.raised = "" THEN r.ret ELSE None
        /\ hout' = NoHOut
        /\ UNCHANGED <<now, tokVars, svcVars, bcrypt_version>>

(* the caller holds a string that is no hasher output *)
HMalformed(h) ==
    /\ hashIn # h \/ hcall # NoHCall
    /\ hashIn' = h
    /\ hcall' = NoHCall
    /\ hout' = NoHOut
    /\ UNCHANGED <<now, tokVars, svcVars, bcrypt_version>>

(* PasswordManager.verify_password(plain_password, hashIn) *)
HVerify(plain_password) ==
    /\ hout' = [fn |-> "verify_password", plain |-> plain_password,
                result |-> PasswordManager_verify_password(plain_password,
                                                           hashIn)]
    /\ UNCHANGED <<now, tokVars, svcVars, bcrypt_version, hashIn, hcall>>

HashNext ==
    \/ \E p \in Plaintexts, salt \in Salts : HHash(p, salt)
    \/ \E h \in MalformedHashes : HMalformed(h)
    \/ \E p \in Plaintexts : HVerify(p)

-----------------------------------------------------------------------------
(* The users table and the user service *)

Procs == {"w1", "w2"}
Usernames == {"alice", "bob"}
Passwords == {"Abc123!@#", "Xyz789$%^"}
Timezones == {"UTC", "Asia/Shanghai"}

(* JSON null given for the (string) timezone field of a UserUpdate *)
NullTz == "<null>"

(* UserUpdate.model_dump(exclude_unset=True): only the fields the request set *)
UserUpdates == {EmptyDict} \cup {[timezone |-> z] : z \in Timezones \cup {NullTz}}

NoHeaders == {}
HTTPException(status_code, detail, headers) ==
    [raised |-> "HTTPException", status_code |-> status_code,
     detail |-> detail, headers |-> headers, ret |-> None]
Returned(v) ==
    [raised |-> "", status_code |-> 0, detail |-> "", headers |-> NoHeaders,
     ret |-> v]
NoRes == [raised |-> "pending", status_code |-> 0, detail |-> "",
          headers |-> NoHeaders, ret |-> None]
NoReq == [op |-> ""]

(* generate_ulid(): a fresh, time-sortable identifier *)
generate_ulid(db) == ULID(Cardinality(db) + 1)

(* User(...) with the column defaults applied at INSERT *)
User(user_id, username, password_hash, timezone, is_active) ==
    [user_id |-> user_id, username |-> username,
     password_hash |-> password_hash, timezone |-> timezone,
     is_active |-> is_active]

(* UserService.get_user_by_id *)
get_user_by_id(db, user_id) ==
    LET m == {r \in db : r.user_id = user_id}
    IN  IF m = {} THEN None ELSE CHOOSE r \in m : TRUE

(* UserService.get_user_by_username *)
get_user_by_username(db, username) ==
    LET m == {r \in db : r.username = username}
    IN  IF m = {} THEN None ELSE CHOOSE r \in m : TRUE

(* a users table whose username column is not declared unique *)
InsertViolation_NoUnique(db, row) ==
    \E r \in db : r.user_id = row.user_id

(* the table's constraints at INSERT: primary key, unique username *)
InsertViolation(db, row) ==
    \E r \in db : r.user_id = row.user_id \/ r.username = row.username

(* UserService.get_user_response / UserResponse(...) *)
UserResponse(user) ==
    [user_id |-> user.user_id, username |-> user.username,
     timezone |-> user.timezone, is_active |-> user.is_active]

(* UserService.authenticate_user *)
authenticate_user(db, username, password) ==
    LET user == get_user_by_username(db, username)
    IN  IF user = None THEN None
        ELSE IF ~verify_password(password, user.password_hash) THEN None
        ELSE user

(* login_user that tells an unknown username from a wrong password *)
login_user_Enumerating(db, username, password, t) ==
    LET user == authenticate_user(db, username, password)
    IN  IF get_user_by_username(db, username) = None
        THEN HTTPException(404, "user not found", NoHeaders)
        ELSE IF user = None
        THEN HTTPException(401, "bad username or password",
                           {<<"WWW-Authenticate", "Bearer">>})
        ELSE IF ~user.is_active
        THEN HTTPException(403, "account disabled", NoHeaders)
        ELSE Returned([user |-> UserResponse(user),
                       token |-> [access_token |->
                                     create_access_token(user.user_id,
                                         Delta(ExpireSeconds), t),
                                  token_type |-> "bearer",
                                  expires_in |-> ExpireSeconds]])

(* login_user without the is_active check *)
login_user_NoActiveCheck(db, username, password, t) ==
    LET user == authenticate_user(db, username, password)
    IN  IF user = None
        THEN HTTPException(401, "bad username or password",
                           {<<"WWW-Authenticate", "Bearer">>})
        ELSE Returned([user |-> UserResponse(user),
                       token |-> [access_token |->
                                     create_access_token(user.user_id,
                                         Delta(ExpireSeconds), t),
                                  token_type |-> "bearer",
                                  expires_in |-> ExpireSeconds]])

(* login_user that looks at the active flag before the password *)
login_user_ActiveFirst(db, username, password, t) ==
    LET found == get_user_by_username(db, username)
        user == authenticate_user(db, username, password)
    IN  IF found # None /\ ~found.is_active
        THEN HTTPException(403, "account disabled", NoHeaders)
        ELSE IF user = None
        THEN HTTPException(401, "bad username or password",
                           {<<"WWW-Authenticate", "Bearer">>})
        ELSE Returned([user |-> UserResponse(user),
                       token |-> [access_token |->
                                     create_access_token(user.user_id,
                                         Delta(ExpireSeconds), t),
                                  token_type |-> "bearer",
                                  expires_in |-> ExpireSeconds]])

(* UserService.login_user at clock value t *)
login_user(db, username, password, t) ==
    LET user == authenticate_user(db, username, password)
    IN  IF user = None
        THEN HTTPException(401, "bad username or password",
                           {<<"WWW-Authenticate", "Bearer">>})
        ELSE IF ~user.is_active
        THEN HTTPException(403, "account disabled", NoHeaders)
        ELSE Returned([user |-> UserResponse(user),
                       token |-> [access_token |->
                                     create_access_token(user.user_id,
                                         Delta(ExpireSeconds), t),
                                  token_type |-> "bearer",
                                  expires_in |-> ExpireSeconds]])

SvcInit ==
    /\ users = {}
    /\ pc = [p \in Procs |-> "idle"]
    /\ req = [p \in Procs |-> NoReq]
    /\ loc = [p \in Procs |-> None]
    /\ res = [p \in Procs |-> NoRes]

Begin(p, r) ==
    /\ pc[p] = "idle"
    /\ req' = [req EXCEPT ![p] = r]

Finish(p, outcome) ==
    /\ pc' = [pc EXCEPT ![p] = "idle"]
    /\ loc' = [loc EXCEPT ![p] = None]
    /\ res' = [res EXCEPT ![p] = outcome]

(* create_user, lines 42-56: the pre-check and the construction of db_user *)
CreateUserCheck(p, username, password, timezone, salt) ==
    /\ Begin(p, [op |-> "create_user", username |-> username,
                 password |-> password, timezone |-> timezone])
    /\ IF get_user_by_username(users, username) # None
       THEN Finish(p, HTTPException(409, "username already exists",
                       {<<"error_code", "USERNAME_ALREADY_EXISTS">>}))
       ELSE /\ pc' = [pc EXCEPT ![p] = "create_commit"]
            /\ loc' = [loc EXCEPT ![p] =
                          [username |-> username,
                           password_hash |-> hash_password(password, salt),
                           timezone |-> timezone, is_active |-> TRUE]]
            /\ res' = [res EXCEPT ![p] = NoRes]
    /\ UNCHANGED <<now, tokVars, hashVars, users>>

(* the row db.add / db.commit sends to the table *)
NewRow(db, db_user) ==
    User(generate_ulid(db), db_user.username, db_user.password_hash,
         db_user.timezone, db_user.is_active)

(* a commit that reports the IntegrityError but keeps the row *)
CommitInsert_NoRollback(db, row) ==
    IF InsertViolation(db, row)
    THEN [error |-> "IntegrityError", db |-> db \cup {row}]
    ELSE [error |-> "", db |-> db \cup {row}]

(* a commit that, on a conflict, reports the IntegrityError after having   *)
(* replaced the conflicting row                                            *)
CommitInsert_Overwrite(db, row) ==
    IF InsertViolation(db, row)
    THEN [error |-> "IntegrityError",
          db |-> {r \in db : r.username # row.username} \cup {row}]
    ELSE [error |-> "", db |-> db \cup {row}]

(* db.commit() of an INSERT: the table after it, or the IntegrityError *)
CommitInsert(db, row) ==
    IF InsertViolation(db, row)
    THEN [error |-> "IntegrityError", db |-> db]
    ELSE [error |-> "", db |-> db \cup {row}]

(* create_user, lines 58-69: add, commit, refresh; IntegrityError -> 409 *)
CreateUserCommit(p) ==
    /\ pc[p] = "create_commit"
    /\ LET row == NewRow(users, loc[p])
           c == CommitInsert(users, row)
       IN  /\ users' = c.db
           /\ IF c.error = "IntegrityError"
              THEN Finish(p, HTTPException(409,
                       "user creation failed, username may exist", NoHeaders))
              ELSE Finish(p, Returned(get_user_by_id(c.db, row.user_id)))
    /\ UNCHANGED <<now, tokVars, hashVars, req>>

(* login_user: one query, no write *)
LoginUser(p, username, password) ==
    /\ Begin(p, [op |-> "login_user", username |-> username,
                 password |-> password])
    /\ Finish(p, login_user(users, username, password, now))
    /\ UNCHANGED <<now, tokVars, hashVars, users>>

NotFound == HTTPException(404, "user not found", NoHeaders)

(* an attribute assignment reaches the table at commit only when it is a   *)
(* net change against the value the session loaded                         *)
NetChange(loaded, field, value) == loaded[field] # value

(* a commit that replaces the loaded user's row by a newly keyed one *)
CommitUpdate_Rekey(db, loaded, changes) ==
    IF "timezone" \in DOMAIN changes /\ changes["timezone"] = NullTz
    THEN [error |-> "IntegrityError", db |-> db]
    ELSE [error |-> "",
          db |-> {IF r.user_id = loaded.user_id
                  THEN [f \in DOMAIN r |->
                           IF f = "user_id" THEN generate_ulid(db)
                           ELSE IF f \in DOMAIN changes THEN changes[f]
                           ELSE r[f]]
                  ELSE r : r \in db}]

(* a commit that writes back every column of the loaded object *)
CommitUpdate_FullRow(db, loaded, changes) ==
    IF "timezone" \in DOMAIN changes /\ changes["timezone"] = NullTz
    THEN [error |-> "IntegrityError", db |-> db]
    ELSE [error |-> "",
          db |-> {IF r.user_id = loaded.user_id
                  THEN [f \in DOMAIN r |->
                           IF f \in DOMAIN changes THEN changes[f]
                           ELSE loaded[f]]
                  ELSE r : r \in db}]

(* db.commit() of the UPDATE of the loaded user's changed columns: the     *)
(* table after it, or the IntegrityError (timezone is NOT NULL)            *)
CommitUpdate(db, loaded, changes) ==
    LET net == {f \in DOMAIN changes : NetChange(loaded, f, changes[f])}
    IN  IF "timezone" \in net /\ changes["timezone"] = NullTz
        THEN [error |-> "IntegrityError", db |-> db]
        ELSE [error |-> "",
              db |-> {IF r.user_id = loaded.user_id
                      THEN [f \in DOMAIN r |->
                               IF f \in net THEN changes[f] ELSE r[f]]
                      ELSE r : r \in db}]

(* update_user, lines 198-209: load the user, set the supplied fields *)
UpdateUserLoad(p, user_id, user_update) ==
    /\ Begin(p, [op |-> "update_user", user_id |-> user_id,
                 update |-> user_update])
    /\ LET user == get_user_by_id(users, user_id)
       IN  IF user = None
           THEN Finish(p, NotFound)
           ELSE /\ pc' = [pc EXCEPT ![p] = "update_commit"]
                /\ loc' = [loc EXCEPT ![p] = user]
                /\ res' = [res EXCEPT ![p] = NoRes]
    /\ UNCHANGED <<now, tokVars, hashVars, users>>

(* update_user, lines 211-220: commit, refresh; IntegrityError -> 400 *)
UpdateUserCommit(p) ==
    /\ pc[p] = "update_commit"
    /\ LET c == CommitUpdate(users, loc[p], req[p].update)
       IN  /\ users' = c.db
           /\ IF c.error = "IntegrityError"
              THEN Finish(p, HTTPException(400, "user update failed",
                                           NoHeaders))
              ELSE Finish(p, Returned(get_user_by_id(c.db, loc[p].user_id)))
    /\ UNCHANGED <<now, tokVars, hashVars, req>>

(* deactivate_user / activate_user, up to the assignment of is_active *)
SetActiveLoad(p, op, user_id) ==
    /\ Begin(p, [op |-> op, user_id |-> user_id])
    /\ LET user == get_user_by_id(users, user_id)
       IN  IF user = None
           THEN Finish(p, NotFound)
           ELSE /\ pc' = [pc EXCEPT ![p] = "active_commit"]
                /\ loc' = [loc EXCEPT ![p] = user]
                /\ res' = [res EXCEPT ![p] = NoRes]
    /\ UNCHANGED <<now, tokVars, hashVars, users>>

(* deactivate_user / activate_user: commit, refresh (no except clause) *)
SetActiveCommit(p) ==
    /\ pc[p] = "active_commit"
    /\ LET c == CommitUpdate(users, loc[p],
                    [is_active |-> (req[p].op = "activate_user")])
       IN  /\ users' = c.db
           /\ Finish(p, Returned(get_user_by_id(c.db, loc[p].user_id)))
    /\ UNCHANGED <<now, tokVars, hashVars, req>>

(* deactivate_user, lines 237-244 *)
DeactivateUserLoad(p, user_id) == SetActiveLoad(p, "deactivate_user", user_id)

(* activate_user, lines 264-271 *)
ActivateUserLoad(p, user_id) == SetActiveLoad(p, "activate_user", user_id)

(* the service calls open to the workers P, their arguments drawn from    *)
(* the sets of D                                                          *)
SvcNext(P, D) ==
    \/ \E p \in P, u \in Usernames, pw \in D.register_pw, z \in D.register_tz,
          salt \in D.salt : CreateUserCheck(p, u, pw, z, salt)
    \/ \E p \in P : CreateUserCommit(p)
    \/ \E p \in P, u \in Usernames, pw \in D.login_pw : LoginUser(p, u, pw)
    \/ \E p \in P, id \in UserIds, up \in D.update :
          UpdateUserLoad(p, id, up)
    \/ \E p \in P : UpdateUserCommit(p)
    \/ \E p \in P, id \in UserIds : DeactivateUserLoad(p, id)
    \/ \E p \in P, id \in UserIds : ActivateUserLoad(p, id)
    \/ \E p \in P : SetActiveCommit(p)

-----------------------------------------------------------------------------
(* The auth gate (app/dependencies/auth.py) *)

AuthSchemes == {"Bearer", "Basic"}

(* str.lower() on the scheme names used here *)
Lower(scheme) == IF scheme = "Bearer" THEN "bearer"
                 ELSE IF scheme = "Basic" THEN "basic"
                 ELSE scheme

(* the Authorization header of a request carrying token, or no header *)
Credentials(token) ==
    {None} \cup {[scheme |-> sch, credentials |-> token] : sch \in AuthSchemes}

Unauthorized(detail) ==
    HTTPException(401, detail, {<<"WWW-Authenticate", "Bearer">>})

(* get_token_from_header(credentials) *)
get_token_from_header(credentials) ==
    IF credentials = None THEN Unauthorized("missing token")
    ELSE IF Lower(credentials.scheme) # "bearer"
    THEN Unauthorized("scheme must be Bearer")
    ELSE Returned(credentials.credentials)

(* auth.verify_token(token) at clock value t: the token's user id *)
auth_verify_token(credentials, t) ==
    LET token == get_token_from_header(credentials)
    IN  IF token.raised # "" THEN token
        ELSE LET user_id == verify_access_token(token.ret, t)
             IN  IF user_id.ret = None THEN Unauthorized("invalid token")
                 ELSE Returned(user_id.ret)

(* get_current_user(user_id, db) *)
get_current_user(db, credentials, t) ==
    LET user_id == auth_verify_token(credentials, t)
    IN  IF user_id.raised # "" THEN user_id
        ELSE LET user == get_user_by_id(db, user_id.ret)
             IN  IF user = None THEN Unauthorized("user not found")
                 ELSE Returned(user)

(* get_current_active_user that lets a disabled user through *)
get_current_active_user_NoActiveCheck(db, credentials, t) ==
    get_current_user(db, credentials, t)

(* get_current_active_user(current_user) *)
get_current_active_user(db, credentials, t) ==
    LET current_user == get_current_user(db, credentials, t)
    IN  IF current_user.raised # "" THEN current_user
        ELSE IF ~current_user.ret.is_active
        THEN HTTPException(403, "account disabled", NoHeaders)
        ELSE current_user

(* HTTPBearer(auto_error=False): the credentials of a bearer header, None  *)
(* for a missing header or another scheme                                  *)
HTTPBearer_optional(header) ==
    IF header = None THEN None
    ELSE IF Lower(header.scheme) # "bearer" THEN None
    ELSE header

(* the body of get_optional_current_user's try block; db_up is whether the *)
(* query reaches the database                                              *)
get_optional_current_user_try(db, credentials, t, db_up) ==
    LET user_id == verify_access_token(credentials.credentials, t)
    IN  IF user_id.raised # "" THEN user_id
        ELSE IF user_id.ret = None THEN Ret(None)
        ELSE IF ~db_up THEN Raise("OperationalError")
        ELSE LET m == {r \in db : r.user_id = user_id.ret /\ r.is_active}
             IN  IF m = {} THEN Ret(None) ELSE Ret(CHOOSE r \in m : TRUE)

(* get_optional_current_user without its except clause *)
get_optional_current_user_NoExcept(db, header, t, db_up) ==
    LET credentials == HTTPBearer_optional(header)
    IN  IF credentials = None THEN Ret(None)
        ELSE get_optional_current_user_try(db, credentials, t, db_up)

(* get_optional_current_user(db, credentials) at clock value t *)
get_optional_current_user(db, header, t, db_up) ==
    LET credentials == HTTPBearer_optional(header)
    IN  IF credentials = None THEN Ret(None)
        ELSE LET r == get_optional_current_user_try(db, credentials, t, db_up)
             IN  IF r.raised # "" THEN Ret(None) ELSE r

(* the outcome of a dependency as the outcome of the request's call *)
Outcome(r) ==
    [raised |-> r.raised, status_code |-> 0, detail |-> "",
     headers |-> NoHeaders, ret |-> r.ret]

(* a request to an endpoint behind Depends(get_optional_current_user) *)
GetOptionalCurrentUser(p, header, db_up) ==
    /\ Begin(p, [op |-> "get_optional_current_user", credentials |-> header,
                 db_up |-> db_up])
    /\ Finish(p, Outcome(get_optional_current_user(users, header, now, db_up)))
    /\ UNCHANGED <<now, tokVars, hashVars, users>>

(* a request to an endpoint behind Depends(get_current_active_user) *)
GetCurrentActiveUser(p, credentials) ==
    /\ Begin(p, [op |-> "get_current_active_user",
                 credentials |-> credentials])
    /\ Finish(p, get_current_active_user(users, credentials, now))
    /\ UNCHANGED <<now, tokVars, hashVars, users>>

(* tokIn was taken from a login response and not altered since *)
FromLogin == [made |-> FALSE, from |-> "login_user"]

(* the client keeps the access token of the login response it received *)
ClientKeepsToken(p) ==
    /\ pc[p] = "idle"
    /\ req[p].op = "login_user"
    /\ res[p].raised = ""
    /\ tokIn' = res[p].ret.token.access_token
    /\ call' = FromLogin
    /\ out' = NoOut
    /\ UNCHANGED <<now, svcVars, hashVars>>

(* register, login, update, deactivate and activate calls of one worker,   *)
(* the client's handling of its token, requests through the gate, and the  *)
(* clock                                                                   *)
GateNext ==
    \/ SvcNext({"w1"},
               [register_pw |-> {"Abc123!@#"}, register_tz |-> {"UTC"},
                salt |-> {"saltA"}, login_pw |-> {"Abc123!@#"},
                update |-> {EmptyDict}])
    \/ ClientKeepsToken("w1")
    \/ \E u \in UserIds : TCreate([sub |-> u], None)
    \/ TFlip
    \/ \E m \in MalformedTokens : TMalformed(m)
    \/ \E c \in Credentials(tokIn) : GetCurrentActiveUser("w1", c)
    \/ TTick

(* one worker registering and logging in one user, deactivate and activate *)
(* calls, the client's handling of its token, requests through the         *)
(* optional gate, and the clock                                            *)
OptionalNext ==
    \/ CreateUserCheck("w1", "alice", "Abc123!@#", "UTC", "saltA")
    \/ CreateUserCommit("w1")
    \/ LoginUser("w1", "alice", "Abc123!@#")
    \/ \E id \in UserIds : DeactivateUserLoad("w1", id)
    \/ \E id \in UserIds : ActivateUserLoad("w1", id)
    \/ SetActiveCommit("w1")
    \/ ClientKeepsToken("w1")
    \/ \E u \in UserIds : TCreate([sub |-> u], None)
    \/ TFlip
    \/ \E m \in MalformedTokens : TMalformed(m)
    \/ \E c \in Credentials(tokIn), db_up \in BOOLEAN :
          GetOptionalCurrentUser("w1", c, db_up)
    \/ TTick

-----------------------------------------------------------------------------
(* Registration requests: the UserCreate schema in front of create_user    *)
(* (app/schemas/user.py, app/routers/user.py).  A submitted username is a  *)
(* sequence of characters; a character outside ASCII is written as its     *)
(* code point.                                                             *)

MaxRegistered == 1        \* registrations explored per behaviour

username_min_length == 1
username_max_length == 20

(* [一-龥A-Za-z0-9_ ] over the characters used here *)
CJKChars == {"U+4E2D"}
LatinChars == {"a", "Z"}
DigitChars == {"7"}
ClassChars == CJKChars \cup LatinChars \cup DigitChars \cup {"_", " "}

(* \s over the characters used here *)
WhitespaceChars == {" ", "\n", "\t"}

(* characters in neither set: hyphen, hiragana A *)
OtherChars == {"-", "U+3042"}

Fill(n) == [i \in 1 .. n |-> "a"]

RawUsernames ==
    {h \o b \o t :
        h \in {<<>>, <<"a">>, <<" ">>, <<"U+4E2D">>, <<"\n">>, <<"-">>},
        b \in {<<>>, <<"7", "_", " ", "Z">>, <<"U+3042">>, <<"\t">>,
               Fill(username_max_length - 2), Fill(username_max_length - 1),
               Fill(username_max_length)},
        t \in {<<>>, <<"\n">>, <<"\n", "\n">>, <<" ">>, <<"a">>}}

(* Field(min_length=1, max_length=20) *)
username_field_ok(v) ==
    username_min_length <= Len(v) /\ Len(v) <= username_max_length

(* re.match(r'^(?!\s)[一-龥A-Za-z0-9_ ]{1,20}$', v): no whitespace  *)
(* ahead at position 0, then 1 to 20 characters of the class, then $,      *)
(* which matches at the end of the string and just before a final newline  *)
re_match_username(v) ==
    /\ Len(v) >= 1
    /\ v[1] \notin WhitespaceChars
    /\ \E n \in 1 .. username_max_length :
          /\ n <= Len(v)
          /\ \A i \in 1 .. n : v[i] \in ClassChars
          /\ \/ n = Len(v)
             \/ n = Len(v) - 1 /\ v[Len(v)] = "\n"

(* UserCreate(username=v, ...): the Field constraints, then                *)
(* validate_username                                                       *)
UserCreate_username_valid(v) ==
    username_field_ok(v) /\ re_match_username(v)

(* POST /register: a body UserCreate rejects is answered 422 and           *)
(* create_user is not called; otherwise create_user runs                   *)
RegisterUser(p, username, password, timezone, salt) ==
    /\ Cardinality(users) < MaxRegistered
    /\ IF UserCreate_username_valid(username)
       THEN CreateUserCheck(p, username, password, timezone, salt)
       ELSE /\ Begin(p, [op |-> "register_user", username |-> username,
                         password |-> password, timezone |-> timezone])
            /\ Finish(p, HTTPException(422, "validation error", NoHeaders))
            /\ UNCHANGED <<now, tokVars, hashVars, users>>

RegNext ==
    \/ \E v \in RawUsernames : RegisterUser("w1", v, "Abc123!@#", "UTC", "saltA")
    \/ CreateUserCommit("w1")

-----------------------------------------------------------------------------
(* Specifications *)

Init == now = StartTime /\ TokInit /\ SvcInit /\ HashInit

(* one worker: the service calls run one after the other, on all inputs *)
Next ==
    SvcNext({"w1"},
            [register_pw |-> Passwords, register_tz |-> Timezones,
             salt |-> Salts, login_pw |-> Passwords, update |-> UserUpdates])

Spec == Init /\ [][Next]_vars

(* two workers: the steps of two service calls interleave; one password,   *)
(* one salt and the default timezone at registration                       *)
ConcNext ==
    SvcNext(Procs,
            [register_pw |-> {"Abc123!@#"}, register_tz |-> {"UTC"},
             salt |-> {"saltA"}, login_pw |-> {"Abc123!@#"},
             update |-> {EmptyDict, [timezone |-> "Asia/Shanghai"],
                         [timezone |-> NullTz]}])

SpecConc == Init /\ [][ConcNext]_vars

(* the token issuer / verifier on its own, with time passing *)
SpecToken == Init /\ [][TokNext]_vars

(* the password hasher on its own *)
SpecHash == Init /\ [][HashNext]_vars

(* the service behind the auth gate, with time passing *)
SpecGate == Init /\ [][GateNext]_vars

(* the service behind the optional auth gate, with time passing *)
SpecOptional == Init /\ [][OptionalNext]_vars

(* registration requests with arbitrary username strings *)
SpecReg == Init /\ [][RegNext]_vars

-----------------------------------------------------------------------------
(* Properties of the token issuer / verifier (checked under SpecToken)     *)

(* tokIn is the token the last create call returned, untouched since *)
Issued == call.made

(* tokIn is a compact token whose signature is the configured key's MAC    *)
(* over its own header and payload                                         *)
WellSigned(token) ==
    /\ token.fmt = "jws"
    /\ token.header.alg \in SupportedAlgs
    /\ token.signature =
          Hmac(jwt_secret_key, token.header.alg, token.header, token.payload)

HasExp(token) == token.fmt = "jws" /\ "exp" \in DOMAIN token.payload

(* the token's expiry second lies before the current second *)
Expired(token, t) == HasExp(token) /\ token.payload.exp < Seconds(t)

Accepted == out.fn = "verify_token" /\ out.result.ret # None

(* C6: a token issued for subject s with the default ttl, handed to         *)
(* verify_access_token at the very clock value of its issuance, yields s.  *)
C6_SubjectRoundTrip ==
    (/\ Issued
     /\ "sub" \in DOMAIN call.data
     /\ call.delta = None
     /\ call.at = now
     /\ out.fn = "verify_access_token")
    => out.result = Ret(call.data.sub)

C6_Witness ==
    /\ Issued
    /\ "sub" \in DOMAIN call.data
    /\ call.delta = None
    /\ call.at = now
    /\ out.fn = "verify_access_token"
    /\ out.result.ret = call.data.sub

(* C7: verify_token returns claims only when the token's expiry is         *)
(* strictly later than the current time: whenever expiry <= now the result *)
(* is None.                                                                *)
C7_ExpiryStrictlyLater ==
    (/\ out.fn = "verify_token"
     /\ HasExp(tokIn)
     /\ tokIn.payload.exp * TicksPerSec <= now)
    => out.result = Ret(None)

(* C8: verify_token accepts a token only if its signature is the MAC of    *)
(* the configured secret key over that token's header.payload; a token     *)
(* with a flipped signature byte or signed with another key yields None.   *)
C8_SignatureRequired ==
    /\ Accepted => WellSigned(tokIn)
    /\ (/\ out.fn = "verify_token"
        /\ tokIn.fmt = "jws"
        /\ (tokIn.signature.flipped \/ tokIn.signature.key # jwt_secret_key))
       => out.result = Ret(None)

C8_Witness ==
    /\ out.fn = "verify_token"
    /\ tokIn.fmt = "jws"
    /\ tokIn.header.alg = jwt_algorithm
    /\ ~Expired(tokIn, now)
    /\ FlipByte(tokIn.signature) =
          Hmac(jwt_secret_key, jwt_algorithm, tokIn.header, tokIn.payload)
    /\ out.result = Ret(None)

(* C9: verify_token rejects every token whose header declares an algorithm *)
(* other than the configured jwt_algorithm, however well-formed the rest.  *)
C9_AlgorithmFixed ==
    (/\ out.fn = "verify_token"
     /\ tokIn.fmt = "jws"
     /\ tokIn.header.alg # jwt_algorithm)
    => out.result = Ret(None)

C9_Witness ==
    /\ out.fn = "verify_token"
    /\ WellSigned(tokIn)
    /\ tokIn.header.alg # jwt_algorithm
    /\ ~Expired(tokIn, now)
    /\ out.result = Ret(None)

C14_ExpiryIsNowPlusTtl ==
    Issued
    => LET ttl == IF call.delta = None THEN ExpireSeconds
                  ELSE call.delta.seconds
       IN  tokIn.payload.exp = Seconds(call.at + ttl * TicksPerSec)

-----------------------------------------------------------------------------
(* Properties of the user service                                          *)

(* worker p's last call was op and has finished: res[p] is its outcome *)
Done(p, op) == pc[p] = "idle" /\ req[p].op = op

Created(o) == o.raised = "" /\ o.ret # None

(* the USERNAME_TAKEN outcome: HTTP 409 Conflict *)
UsernameTaken(o) == o.raised = "HTTPException" /\ o.status_code = 409

(* the call got past the pre-check: it created the user, or it failed at   *)
(* commit (the response the except clause of create_user builds)           *)
ReachedCommit(o) ==
    \/ Created(o)
    \/ UsernameTaken(o) /\ o.detail = "user creation failed, username may exist"

(* the BAD_CREDENTIALS outcome of login_user *)
BadCredentials ==
    HTTPException(401, "bad username or password",
                  {<<"WWW-Authenticate", "Bearer">>})

(* password is the one the stored row was registered with *)
RegisteredWith(row, password) ==
    row.password_hash = hash_password(password, row.password_hash.salt)

(* C1 (under SpecConc): of two finished create_user calls for the same     *)
(* username, each ends as created or as 409 USERNAME_TAKEN, never both as  *)
(* created; and when both got past the pre-check (they raced), exactly one *)
(* of them created the user.                                               *)
C1_ExactlyOneRegisters ==
    \A p, q \in Procs :
        (/\ p # q
         /\ Done(p, "create_user") /\ Done(q, "create_user")
         /\ req[p].username = req[q].username)
        => /\ Created(res[p]) \/ UsernameTaken(res[p])
           /\ ~(Created(res[p]) /\ Created(res[q]))
           /\ (ReachedCommit(res[p]) /\ ReachedCommit(res[q]))
              => (Created(res[p]) \/ Created(res[q]))

C1_Witness ==
    \E p, q \in Procs :
        /\ p # q
        /\ Done(p, "create_user") /\ Done(q, "create_user")
        /\ req[p].username = req[q].username
        /\ ReachedCommit(res[p]) /\ ReachedCommit(res[q])
        /\ Created(res[p]) /\ UsernameTaken(res[q])

(* C2 (under SpecConc): no two stored user records have the same username, *)
(* whatever calls of the service have run and however they interleaved.    *)
C2_UsernameUnique ==
    \A r1, r2 \in users : r1.username = r2.username => r1 = r2

C2_Witness ==
    /\ Cardinality(users) = 2
    /\ \E p \in Procs :
          /\ Done(p, "create_user")
          /\ UsernameTaken(res[p]) /\ ReachedCommit(res[p])
    /\ \E p \in Procs : Done(p, "update_user") /\ res[p].raised = ""

(* C3: login_user with an unknown username and login_user with a known     *)
(* username but a wrong password give the same outcome, BAD_CREDENTIALS    *)
(* with the same status, message and headers, in every store state.        *)
C3_SameBadCredentials ==
    /\ \A u1, u2 \in Usernames, pw1, pw2 \in Passwords :
          LET known == get_user_by_username(users, u2)
          IN  (/\ get_user_by_username(users, u1) = None
               /\ known # None
               /\ ~RegisteredWith(known, pw2))
              => /\ login_user(users, u1, pw1, now) = BadCredentials
                 /\ login_user(users, u2, pw2, now) =
                       login_user(users, u1, pw1, now)
    /\ \A p \in Procs :
          LET row == get_user_by_username(users, req[p].username)
          IN  (/\ Done(p, "login_user")
               /\ (row = None \/ ~RegisteredWith(row, req[p].password)))
              => res[p] = BadCredentials

C3_Witness ==
    /\ \E u \in Usernames : get_user_by_username(users, u) = None
    /\ \E p \in Procs :
          LET row == get_user_by_username(users, req[p].username)
          IN  /\ Done(p, "login_user")
              /\ row # None
              /\ ~RegisteredWith(row, req[p].password)
              /\ res[p] = BadCredentials

(* C4: a login_user call with the correct username and password of a user  *)
(* whose is_active is false ends with DISABLED (403) and returns no token. *)
C4_DisabledLogin ==
    \A p \in Procs :
        LET row == get_user_by_username(users, req[p].username)
        IN  (/\ Done(p, "login_user")
             /\ row # None
             /\ ~row.is_active
             /\ RegisteredWith(row, req[p].password))
            => /\ res[p].raised = "HTTPException"
               /\ res[p].status_code = 403
               /\ res[p].ret = None

C4_Witness ==
    \E p \in Procs :
        LET row == get_user_by_username(users, req[p].username)
        IN  /\ Done(p, "login_user")
            /\ row # None
            /\ ~row.is_active
            /\ RegisteredWith(row, req[p].password)
            /\ res[p].status_code = 403

(* C5: a login_user call with the username and password an active user was *)
(* registered with returns that user's record and a token from which       *)
(* verify_access_token reads exactly that user's user_id.                  *)
C5_LoginTokenSubject ==
    \A p \in Procs :
        LET row == get_user_by_username(users, req[p].username)
        IN  (/\ Done(p, "login_user")
             /\ row # None
             /\ row.is_active
             /\ RegisteredWith(row, req[p].password))
            => /\ res[p].raised = ""
               /\ res[p].ret.user = UserResponse(row)
               /\ verify_access_token(res[p].ret.token.access_token, now)
                     = Ret(row.user_id)

C5_Witness ==
    \E p \in Procs :
        LET row == get_user_by_username(users, req[p].username)
        IN  /\ Done(p, "login_user")
            /\ row # None
            /\ row.is_active
            /\ RegisteredWith(row, req[p].password)
            /\ res[p].raised = ""
            /\ Cardinality(users) = 2
            /\ verify_access_token(res[p].ret.token.access_token, now)
                  = Ret(row.user_id)


-----------------------------------------------------------------------------
(* Properties of the password hasher (checked under SpecHash)              *)

(* hashIn is what the last hash_password call returned *)
Hashed == hcall.made /\ hcall.result.raised = ""

Verified == hout.fn = "verify_password"

(* C11: for every plaintext p and every salt hash_password draws,          *)
(* hash_password(p) returns a stored string and verify_password(p, that    *)
(* string) is true.                                                        *)
C11_HashVerifyRoundTrip ==
    hcall.made
    => /\ hcall.result.raised = ""
       /\ (Verified /\ hout.plain = hcall.password) => hout.result = Ret(TRUE)

(* C12: for all plaintexts p1 # p2, verify_password(p1, hash_password(p2)) *)
(* is false.                                                               *)
C12_OtherPlaintextFails ==
    (Hashed /\ Verified /\ hout.plain # hcall.password)
    => hout.result = Ret(FALSE)

(* the consequence C12 draws for the service (under Spec): a login_user    *)
(* call succeeds only with the password the user was registered with      *)
C12_AuthenticateRegisteredOnly ==
    \A p \in Procs :
        (Done(p, "login_user") /\ res[p].raised = "")
        => \E row \in users :
              /\ row.username = req[p].username
              /\ RegisteredWith(row, req[p].password)

(* C13: verify_password never raises; for every plaintext and every stored *)
(* string, a hasher output or not, it returns a boolean, and false when    *)
(* the stored string is malformed.                                        *)
C13_VerifyNeverRaises ==
    /\ hout.result.raised = ""
    /\ Verified
       => /\ hout.result.ret \in BOOLEAN
          /\ hashIn \in MalformedHashes => hout.result = Ret(FALSE)

C13_Witness ==
    /\ Verified
    /\ hashIn \in MalformedHashes
    /\ hashIn # None
    /\ hashIn.scheme # "2b"
    /\ hout.result = Ret(FALSE)


(* C15 (under SpecConc): update_user changes only the fields the request   *)
(* supplied: no record is added or removed, every record other than the    *)
(* target's is left as it was, the target keeps its user_id, username,     *)
(* password_hash and is_active, an omitted timezone keeps its stored value *)
(* and a supplied one is never stored as null.                            *)
C15_UpdateOnlySupplied ==
    [][\A p \in Procs :
          /\ (pc[p] = "idle" /\ pc'[p] = "update_commit")
             => users' = users
          /\ UpdateUserCommit(p)
             => /\ Cardinality(users') = Cardinality(users)
                /\ \A r \in users :
                      \E r2 \in users' :
                          /\ r2.user_id = r.user_id
                          /\ r2.username = r.username
                          /\ r2.password_hash = r.password_hash
                          /\ r2.is_active = r.is_active
                          /\ r.user_id # loc[p].user_id => r2 = r
                          /\ "timezone" \notin DOMAIN req[p].update
                             => r2.timezone = r.timezone
                          /\ "timezone" \in DOMAIN req[p].update
                             => r2.timezone \in
                                   {r.timezone, req[p].update.timezone}
                          /\ r2.timezone # NullTz
   ]_vars

C15_Witness ==
    /\ Cardinality(users) = 2
    /\ \E p \in Procs :
          /\ Done(p, "update_user")
          /\ "timezone" \in DOMAIN req[p].update
          /\ res[p].raised = ""
          /\ res[p].ret.timezone = req[p].update.timezone
          /\ \E r \in users : r.timezone # res[p].ret.timezone
    /\ \E r \in users : ~r.is_active


(* C16 (under SpecConc): a stored user record keeps its user_id through    *)
(* every later step, whatever login, update_user, deactivate_user and      *)
(* activate_user calls run, and two distinct records never share a         *)
(* user_id.                                                                *)
C16_UserIdStable ==
    /\ [](\A r1, r2 \in users : r1.user_id = r2.user_id => r1 = r2)
    /\ [][\A r \in users :
             \E r2 \in users' :
                 r2.username = r.username /\ r2.user_id = r.user_id]_vars

C16_Witness ==
    /\ Cardinality(users) = 2
    /\ \E p, q \in Procs :
          /\ Done(p, "activate_user") /\ res[p].raised = ""
          /\ Done(q, "update_user") /\ res[q].raised = ""
          /\ res[q].ret.timezone # "UTC"
          /\ res[p].ret.user_id = res[q].ret.user_id
          /\ res[p].ret.user_id = ULID(1)
    /\ \E r \in users : r.user_id = ULID(1) /\ r.timezone # "UTC" /\ r.is_active


(* the statuses of the error taxonomy: USERNAME_TAKEN 409, BAD_CREDENTIALS *)
(* and TOKEN_INVALID 401, DISABLED 403, NOT_FOUND 404                      *)
TaxonomyStatus == {409, 401, 403, 404}

StoreOps == {"create_user", "update_user", "deactivate_user", "activate_user"}

(* C17 (under Spec): every create_user, update_user, deactivate_user or    *)
(* activate_user call that ends in an error, a store-layer integrity       *)
(* violation included, ends in an HTTPException carrying one of the        *)
(* taxonomy outcomes; nothing else escapes the service.                    *)
C17_ErrorsInTaxonomy ==
    \A p \in Procs :
        (pc[p] = "idle" /\ req[p].op \in StoreOps /\ res[p].raised # "")
        => /\ res[p].raised = "HTTPException"
           /\ res[p].status_code \in TaxonomyStatus

(* the USERNAME_TAKEN outcome as the pre-check of create_user raises it *)
PreCheckTaken ==
    HTTPException(409, "username already exists",
                  {<<"error_code", "USERNAME_ALREADY_EXISTS">>})

(* C18 (under SpecConc): a create_user call that got past the pre-check    *)
(* and failed on the unique constraint at commit ends with the status and  *)
(* the error code of the pre-check's USERNAME_TAKEN outcome, and its       *)
(* insert is rolled back: the username stays stored exactly once.          *)
C18_CommitConflictCanonical ==
    \A p \in Procs :
        (/\ Done(p, "create_user")
         /\ ReachedCommit(res[p])
         /\ UsernameTaken(res[p]))
        => /\ res[p].status_code = PreCheckTaken.status_code
           /\ res[p].headers = PreCheckTaken.headers
           /\ Cardinality({r \in users : r.username = req[p].username}) = 1


-----------------------------------------------------------------------------
(* Properties of the auth gate (checked under SpecGate)                    *)

(* C19: a request passes get_current_active_user only if it carries a      *)
(* bearer token that verifies at the time of the request (configured       *)
(* algorithm, the server's signature, not expired, a sub claim), the sub   *)
(* is the user_id of a stored user and that user is active at that time;   *)
(* the user the handler receives is that record.  Hence a token issued     *)
(* before deactivate_user is rejected while the user stays disabled.       *)
C19_GateOnlyActiveUser ==
    [][\A p \in Procs : \A c \in Credentials(tokIn) :
          (GetCurrentActiveUser(p, c) /\ res'[p].raised = "")
          => /\ c # None
             /\ Lower(c.scheme) = "bearer"
             /\ WellSigned(tokIn)
             /\ tokIn.header.alg = jwt_algorithm
             /\ ~Expired(tokIn, now)
             /\ "sub" \in DOMAIN tokIn.payload
             /\ \E row \in users :
                   /\ row.user_id = tokIn.payload.sub
                   /\ row.is_active
                   /\ res'[p].ret = row
   ]_vars

C19_Witness ==
    \E p \in Procs :
        /\ Done(p, "get_current_active_user")
        /\ call = FromLogin
        /\ req[p].credentials = [scheme |-> "Bearer", credentials |-> tokIn]
        /\ verify_access_token(tokIn, now).ret # None
        /\ \E row \in users :
              /\ row.user_id = tokIn.payload.sub
              /\ ~row.is_active
        /\ res[p].raised = "HTTPException"
        /\ res[p].status_code = 403


-----------------------------------------------------------------------------
(* Properties of registration requests (checked under SpecReg)             *)

(* the usernames of the data model: 1 to 20 characters, each a CJK or      *)
(* Latin letter, a digit, an underscore or a space, the first not a space  *)
InUsernameSet(v) ==
    /\ 1 <= Len(v) /\ Len(v) <= 20
    /\ \A i \in 1 .. Len(v) :
          v[i] \in CJKChars \cup LatinChars \cup DigitChars \cup {"_", " "}
    /\ v[1] # " "

(* C20: registration lets a username through to create_user if and only if *)
(* it is 1 to 20 characters long, made of CJK/Latin letters, digits,       *)
(* underscore and space only, and does not start with a space; every other *)
(* string, one ending in a newline included, is rejected and no user with  *)
(* such a name is stored.                                                  *)
C20_UsernameAcceptedIffValid ==
    /\ \A p \in Procs :
          /\ req[p].op = "register_user" => ~InUsernameSet(req[p].username)
          /\ req[p].op = "create_user" => InUsernameSet(req[p].username)
    /\ \A r \in users : InUsernameSet(r.username)


-----------------------------------------------------------------------------
(* Further properties of the user service                                  *)

(* C21 (under Spec): every record create_user stores has is_active = true  *)
(* and, as password_hash, the Password Hasher's output for the submitted   *)
(* password under some salt (a bcrypt string, not the plaintext); and no   *)
(* step of any later login, update, deactivate or activate call replaces   *)
(* the password_hash of a stored record.                                   *)
C21_HashStoredAndKept ==
    [][/\ \A p \in Procs :
             CreateUserCommit(p)
             => \A r \in users' \ users :
                   /\ r.is_active
                   /\ r.username = req[p].username
                   /\ r.password_hash.scheme = "2b"
                   /\ \E salt \in Salts :
                         Ret(r.password_hash) =
                            PasswordManager_hash_password(req[p].password, salt)
                   /\ PasswordManager_verify_password(req[p].password,
                                                      r.password_hash)
                         = Ret(TRUE)
       /\ \A r \in users :
             \E r2 \in users' :
                 /\ r2.username = r.username
                 /\ r2.password_hash = r.password_hash
      ]_vars

C21_Witness ==
    /\ \E r1, r2 \in users :
          /\ r1.password_hash.digest.pw # r2.password_hash.digest.pw
          /\ r1.password_hash.salt # r2.password_hash.salt
          /\ r1.timezone # "UTC"
          /\ ~r2.is_active
    /\ Done("w1", "login_user")
    /\ res["w1"].raised = ""

(* the DISABLED outcome of login_user *)
Disabled(o) == o.raised = "HTTPException" /\ o.status_code = 403

(* C22 (under Spec): login_user checks the credentials before the active   *)
(* flag: a login for a disabled user with a password other than the one    *)
(* registered ends in BAD_CREDENTIALS, and DISABLED is the outcome only of *)
(* a login that supplied the registered password of a disabled user.       *)
C22_CredentialsBeforeActive ==
    /\ \A u \in Usernames, pw \in Passwords :
          LET row == get_user_by_username(users, u)
              o == login_user(users, u, pw, now)
          IN  /\ (row # None /\ ~row.is_active /\ ~RegisteredWith(row, pw))
                 => o = BadCredentials
              /\ Disabled(o)
                 => (row # None /\ ~row.is_active /\ RegisteredWith(row, pw))
    /\ \A p \in Procs :
          LET row == get_user_by_username(users, req[p].username)
          IN  (Done(p, "login_user") /\ Disabled(res[p]))
              => (row # None /\ ~row.is_active
                  /\ RegisteredWith(row, req[p].password))

C22_Witness ==
    \E p \in Procs :
        LET row == get_user_by_username(users, req[p].username)
        IN  /\ Done(p, "login_user")
            /\ row # None
            /\ ~row.is_active
            /\ ~RegisteredWith(row, req[p].password)
            /\ res[p] = BadCredentials

(* worker p took the step *)
Stepped(p) == pc'[p] # pc[p] \/ req'[p] # req[p] \/ res'[p] # res[p]

(* C23 (under SpecConc): a step of a service call that does not end in     *)
(* success leaves the users table exactly as it was: the steps before a    *)
(* commit, every step that ends a call in USERNAME_TAKEN, BAD_CREDENTIALS, *)
(* DISABLED or NOT_FOUND, and every login_user step, successful or not.    *)
C23_ErrorsLeaveStore ==
    [][\A p \in Procs :
          (/\ Stepped(p)
           /\ \/ pc'[p] # "idle"
              \/ /\ res'[p].raised = "HTTPException"
                 /\ res'[p].status_code \in TaxonomyStatus
              \/ req'[p].op = "login_user")
          => users' = users
      ]_vars

C23_Witness ==
    \E p, q \in Procs :
        /\ Done(p, "create_user")
        /\ ReachedCommit(res[p]) /\ UsernameTaken(res[p])
        /\ Done(q, "update_user")
        /\ res[q] = NotFound
        /\ Cardinality(users) = 1


-----------------------------------------------------------------------------
(* Properties of the optional auth gate (checked under SpecOptional)       *)

(* C24: get_optional_current_user never raises; it returns a user only     *)
(* when the request carries a bearer token that verifies and whose sub is  *)
(* the user_id of a stored, active user, and then returns that user; with  *)
(* no credentials, a token that does not verify, a sub matching no user or *)
(* a disabled user it returns None.                                        *)
C24_OptionalUserNeverRaises ==
    [][\A p \in Procs :
          (/\ req'[p].op = "get_optional_current_user"
           /\ GetOptionalCurrentUser(p, req'[p].credentials, req'[p].db_up))
          => LET c == req'[p].credentials
                 db_up == req'[p].db_up
                 verifies == /\ c # None
                             /\ Lower(c.scheme) = "bearer"
                             /\ WellSigned(tokIn)
                             /\ tokIn.header.alg = jwt_algorithm
                             /\ ~Expired(tokIn, now)
                             /\ "sub" \in DOMAIN tokIn.payload
                 match == {r \in users : verifies
                                         /\ r.user_id = tokIn.payload.sub
                                         /\ r.is_active}
             IN  /\ res'[p].raised = ""
                 /\ res'[p].ret # None => res'[p].ret \in match
                 /\ (match = {} \/ ~db_up) => res'[p].ret = None
                 /\ (match # {} /\ db_up) => res'[p].ret \in match
      ]_vars

C24_Witness ==
    \E p \in Procs :
        /\ Done(p, "get_optional_current_user")
        /\ call = FromLogin
        /\ req[p].credentials = [scheme |-> "Bearer", credentials |-> tokIn]
        /\ req[p].db_up
        /\ verify_access_token(tokIn, now).ret # None
        /\ \E row \in users :
              /\ row.user_id = tokIn.payload.sub
              /\ ~row.is_active
        /\ res[p].raised = ""
        /\ res[p].ret = None


====
